---- MODULE Spec2Model ----
(***************************************************************************)
(* DynamoDB-backed advisory lock manager of openai-discord-bot             *)
(* (src/src/aws/dynamodb.go, Lock type in src/unnamed/part_002) and the    *)
(* Discord shell that calls it.                                            *)
(*                                                                         *)
(* Every process runs two kinds of goroutine: the "caller" (a shell        *)
(* handler calling Acquire / Heartbeat / Release) and, per lock id, the    *)
(* goroutine the background ticker spawns to heartbeat that id.  A remote  *)
(* call (GetItem, PutItem, DeleteItem) and every critical section of d.mu  *)
(* is one atomic step; goroutines interleave between those steps.          *)
(***************************************************************************)
EXTENDS Integers, FiniteSets, Sequences, TLC

\* ---------------------------------------------------------------- bounds
MaxAdvances == 1
MaxOps == 3
MaxSoloOps == 4
MaxLeaseSeconds == 2
MaxSeconds == 1
MaxWrites == 3
MaxEvents == 3

\* ------------------------------------------------------ program constants
lockMaxShards == 2
lockLeaseDurationSeconds == 10
lockHeartbeatIntervalSeconds == 3
abandonLockAfterMilliseconds == 5 * 60 * 1000

Processes == {"A", "B"}
LockIDs == {"job-1"}
Payloads == {""}
Nil == "nil"
Threads == {"caller"} \cup LockIDs

\* The gateway events the shell handles, each in a goroutine of its own, and
\* the channel and thread ids they can name.
Events == 1..MaxEvents
EventTypes == {"InteractionCreate", "MessageCreate", "ChannelCreate",
               "ChannelDelete"}
ChannelIDs == {"chan-1", "chan-2"}
ThreadIDs == {"thread-1"}

\* The wall clock moves by one millisecond, or up to or just past the lease
\* or the abandonment threshold, so that every comparison meets both sides
\* of its boundary.
LeaseMs == lockLeaseDurationSeconds * 1000
ClockSteps == {1, LeaseMs, LeaseMs + 1, abandonLockAfterMilliseconds,
               abandonLockAfterMilliseconds + 1}

VARIABLES
    table,      \* the DynamoDB table: lock id -> item
    locks,      \* d.locks of every process
    th,         \* the goroutines: th[p][t]
    clock,      \* time.Now() in milliseconds, the same for all processes
    advances,   \* how often the clock has moved
    nextVersion,\* source of uuid.NewV7 values
    ops,        \* calls and ticks the run may still start
    shell,      \* the shell handler's position for the delivered event
    idsMap,     \* d.idsMap: the RWMutex and the maps it protects
    events,     \* the shell's handler goroutines, one per gateway event
    stopped,    \* the processes whose background goroutine has returned
    contended   \* the processes whose concurrent Acquire both read "absent"

vars == <<table, locks, th, clock, advances, nextVersion, ops, shell,
          idsMap, events, stopped, contended>>

\* ------------------------------------------------------------ Lock record
NewLock(ID, Owner, Lease, LastUpdated, Version, Shard, TTL, CreatedAt, Data) ==
    [ID |-> ID, Owner |-> Owner, LeaseDurationMilliseconds |-> Lease,
     LastUpdatedTimeMilliseconds |-> LastUpdated,
     RecordVersionNumber |-> Version, Shard |-> Shard,
     TTLEpochSeconds |-> TTL, CreatedAtMilliseconds |-> CreatedAt,
     Data |-> Data]

NoLock == NewLock("", "", 0, 0, 0, 0, 0, 0, Nil)

IsExpiredInclusive(l, nowMilliseconds) ==
    nowMilliseconds - l.LastUpdatedTimeMilliseconds >= l.LeaseDurationMilliseconds

IsExpired(l, nowMilliseconds) ==
    nowMilliseconds - l.LastUpdatedTimeMilliseconds > l.LeaseDurationMilliseconds

\* Go map operations
MapPut(m, k, v) == [x \in (DOMAIN m) \cup {k} |-> IF x = k THEN v ELSE m[x]]
MapDelete(m, k) == [x \in (DOMAIN m) \ {k} |-> m[x]]
EmptyMap == [x \in {} |-> NoLock]

\* -------------------------------------------------------------- goroutines
\* the processes that have called the lock client
Callers == {p \in Processes : th[p]["caller"].op # "none"}

\* The processes are interchangeable: the one that makes the first call of a
\* run is the one named A.
MayCall(p) == ops > 0 /\ (Callers = {} => p = "A")

Idle == [pc |-> "idle", op |-> "none", id |-> "", now |-> 0,
         existing |-> NoLock, lock |-> NoLock, newData |-> Nil,
         res |-> "none", issued |-> FALSE, saw |-> "none",
         again |-> FALSE, mu |-> FALSE]

Set(p, t, r) == th' = [th EXCEPT ![p][t] = r]

\* A goroutine's locals die when the call returns; what the claims need of a
\* finished call stays: the operation, the id, the result, the record the
\* call read, whether a remote write was issued, what Acquire's read saw, and
\* whether the call was a Release following a Release of the same id, and
\* the time a successful Acquire read.
Finished(r, result) ==
    [Idle EXCEPT !.op = r.op, !.id = r.id, !.res = result,
                 !.existing = r.existing, !.issued = r.issued,
                 !.saw = r.saw, !.again = r.again,
                 !.now = IF r.op = "Acquire" /\ result = "ok"
                         THEN r.now ELSE 0]

Return(p, t, result) == Set(p, t, Finished(th[p][t], result))

\* IDsMap as NewIDsMap builds it, with the state of its embedded
\* sync.RWMutex: the number of read locks held, the goroutine inside
\* Lock()..Unlock() (0 for none) and whether it has got past the readers.
NewIDsMap ==
    [channelIDs |-> {}, threadIDs |-> {}, readerCount |-> 0, writer |-> 0,
     writing |-> FALSE]

Undelivered == [pc |-> "undelivered", type |-> Nil, channel |-> Nil]

Init ==
    /\ table = EmptyMap
    /\ locks = [p \in Processes |-> EmptyMap]
    /\ th = [p \in Processes |-> [t \in Threads |-> Idle]]
    /\ clock = 0
    /\ advances = 0
    /\ nextVersion = 1
    /\ ops = MaxOps
    /\ shell = [p \in Processes |-> "pending"]
    /\ idsMap = NewIDsMap
    /\ events = [e \in Events |-> Undelivered]
    /\ stopped = {}
    /\ contended = {}

\* ------------------------------------------------------------------ clock
Advance ==
    /\ advances < MaxAdvances
    /\ \E d \in ClockSteps : clock' = clock + d
    /\ advances' = advances + 1
    /\ UNCHANGED <<table, locks, th, nextVersion, ops, shell, idsMap, events,
                   contended, stopped>>

\* ------------------------------------------------------ storage predicates
Owner(p) == p

\* ConditionExpression of updateExistingLock, evaluated by the store on the
\* item it holds (a comparison with an attribute of a missing item is false).
UpdateCondition(tbl, existingLock, nowMilliseconds) ==
    /\ existingLock.ID \in DOMAIN tbl
    /\ LET item == tbl[existingLock.ID] IN
       /\ item.RecordVersionNumber = existingLock.RecordVersionNumber
       /\ \/ item.Owner = existingLock.Owner
          \/ /\ item.Owner # existingLock.Owner
             /\ item.LastUpdatedTimeMilliseconds < nowMilliseconds - LeaseMs

\* ConditionExpression of releaseLock
ReleaseCondition(tbl, existingLock, p) ==
    /\ existingLock.ID \in DOMAIN tbl
    /\ LET item == tbl[existingLock.ID] IN
       /\ item.RecordVersionNumber = existingLock.RecordVersionNumber
       /\ item.Owner = Owner(p)

UpdateTTLOneLease(nowMilliseconds, leaseDurationMilliseconds) ==
    (nowMilliseconds \div 1000) + (leaseDurationMilliseconds \div 1000)

\* updateExistingLock's newTtl
UpdateTTL(nowMilliseconds, leaseDurationMilliseconds) ==
    (nowMilliseconds \div 1000) + ((10 * leaseDurationMilliseconds) \div 1000)

\* putNewLock's ttl
PutTTL(nowMilliseconds, LeaseDurationSeconds) ==
    (nowMilliseconds \div 1000) + LeaseDurationSeconds * 10

UpdatedLockStaleTime(p, existingLock, newData, nowMilliseconds, version) ==
    NewLock(existingLock.ID, Owner(p), LeaseMs,
            existingLock.LastUpdatedTimeMilliseconds, version,
            existingLock.Shard,
            (nowMilliseconds \div 1000) + ((10 * LeaseMs) \div 1000),
            existingLock.CreatedAtMilliseconds, newData)

UpdatedLockRestamped(p, existingLock, newData, nowMilliseconds, version) ==
    NewLock(existingLock.ID, Owner(p), LeaseMs, nowMilliseconds, version,
            existingLock.Shard,
            (nowMilliseconds \div 1000) + ((10 * LeaseMs) \div 1000),
            nowMilliseconds, newData)

UpdatedLockReshards(p, existingLock, newData, nowMilliseconds, version) ==
    NewLock(existingLock.ID, Owner(p), LeaseMs, nowMilliseconds, version,
            (existingLock.Shard + 1) % lockMaxShards,
            (nowMilliseconds \div 1000) + ((10 * LeaseMs) \div 1000),
            existingLock.CreatedAtMilliseconds, newData)

\* the item updateExistingLock writes under a configured lease
UpdatedLockFor(p, existingLock, newData, nowMilliseconds, version, seconds) ==
    NewLock(existingLock.ID, Owner(p), seconds * 1000, nowMilliseconds,
            version, existingLock.Shard,
            UpdateTTL(nowMilliseconds, seconds * 1000),
            existingLock.CreatedAtMilliseconds, newData)

\* the item updateExistingLock writes
UpdatedLock(p, existingLock, newData, nowMilliseconds, version) ==
    UpdatedLockFor(p, existingLock, newData, nowMilliseconds, version,
                   lockLeaseDurationSeconds)

FreshLockUnstamped(p, id, data, nowMilliseconds, version, shard) ==
    NewLock(id, Owner(p), LeaseMs, nowMilliseconds, version, shard,
            (nowMilliseconds \div 1000) + lockLeaseDurationSeconds * 10,
            0, data)

\* the item putNewLock writes under a configured lease
FreshLockFor(p, id, data, nowMilliseconds, version, shard, seconds) ==
    NewLock(id, Owner(p), seconds * 1000, nowMilliseconds, version, shard,
            PutTTL(nowMilliseconds, seconds), nowMilliseconds, data)

\* the item putNewLock writes
FreshLock(p, id, data, nowMilliseconds, version, shard) ==
    FreshLockFor(p, id, data, nowMilliseconds, version, shard,
                 lockLeaseDurationSeconds)

IsAbandonedInclusive(l, nowMilliseconds) ==
    l.CreatedAtMilliseconds <= nowMilliseconds - abandonLockAfterMilliseconds

\* the abandonment test of Heartbeat
IsAbandoned(l, nowMilliseconds) ==
    l.CreatedAtMilliseconds < nowMilliseconds - abandonLockAfterMilliseconds

\* --------------------------------------------------------------- Acquire
AcquireStart(p, id, data) ==
    /\ MayCall(p)
    /\ ops' = ops - 1
    /\ th[p]["caller"].pc = "idle"
    /\ Set(p, "caller", [Idle EXCEPT !.pc = "acq_get", !.op = "Acquire",
                                     !.id = id, !.now = clock,
                                     !.newData = data])
    /\ contended' = contended \ {p}
    /\ UNCHANGED <<table, locks, clock, advances, nextVersion, stopped>>

\* getLock: GetItem with ConsistentRead.  Acquire passes the id on as it got
\* it: for the empty id the request goes out and the table answers with a
\* ValidationException (a key attribute may not be the empty string), which
\* getLock and Acquire return untranslated.
AcquireGet(p) ==
    LET me == th[p]["caller"] IN
    /\ me.pc = "acq_get"
    /\ IF me.id = ""
       THEN /\ Set(p, "caller", Finished([me EXCEPT !.saw = "rejected"],
                                         "ValidationException"))
            /\ UNCHANGED contended
       ELSE IF me.id \in DOMAIN table
       THEN /\ Set(p, "caller", [me EXCEPT
                     !.pc = "acq_cache", !.existing = table[me.id],
                     !.saw = IF IsExpired(table[me.id], me.now)
                             THEN "expired" ELSE "live"])
            /\ UNCHANGED contended
       ELSE /\ Set(p, "caller", [me EXCEPT !.pc = "acq_put",
                                           !.saw = "absent"])
            /\ LET others == {q \in Processes \ {p} :
                                /\ th[q]["caller"].pc = "acq_put"
                                /\ th[q]["caller"].id = me.id}
               IN contended' = IF others = {} THEN contended
                               ELSE contended \cup others \cup {p}
    /\ UNCHANGED <<table, locks, clock, advances, ops, nextVersion, shell,
                   idsMap, events, stopped>>

\* getLock's d.locks[id] = *newLock, then Acquire's IsExpired branch
AcquireCache(p) ==
    LET me == th[p]["caller"] IN
    /\ me.pc = "acq_cache"
    /\ locks' = [locks EXCEPT ![p] = MapPut(locks[p], me.id, me.existing)]
    /\ IF ~IsExpired(me.existing, me.now)
       THEN Return(p, "caller", "UNAVAILABLE")
       ELSE Set(p, "caller", [me EXCEPT !.pc = "acq_update", !.mu = FALSE])
    /\ UNCHANGED <<table, clock, advances, ops, nextVersion, shell, idsMap,
                   events, contended, stopped>>

\* updateExistingLock's conditional PutItem
UpdatePut(p, t, stored, failed) ==
    LET me == th[p][t] IN
    IF UpdateCondition(table, me.existing, me.now)
    THEN /\ LET newLock == UpdatedLock(p, me.existing, me.newData, me.now,
                                       nextVersion)
            IN /\ table' = MapPut(table, me.id, newLock)
               /\ Set(p, t, [me EXCEPT !.pc = stored, !.lock = newLock,
                                       !.issued = TRUE])
         /\ nextVersion' = nextVersion + 1
    ELSE /\ Set(p, t, [me EXCEPT !.pc = failed, !.issued = TRUE])
         /\ UNCHANGED <<table, nextVersion, stopped>>

AcquireUpdate(p) ==
    /\ th[p]["caller"].pc = "acq_update"
    /\ UpdatePut(p, "caller", "acq_ustore", "acq_evict")
    /\ UNCHANGED <<locks, clock, advances, ops, shell, idsMap, events,
                   contended, stopped>>

\* updateExistingLock's d.locks[existingLock.ID] = newLock
AcquireUStore(p) ==
    LET me == th[p]["caller"] IN
    /\ me.pc = "acq_ustore"
    /\ locks' = [locks EXCEPT ![p] = MapPut(locks[p], me.id, me.lock)]
    /\ Return(p, "caller", "ok")
    /\ UNCHANGED <<table, clock, advances, ops, nextVersion, shell, idsMap,
                   events, contended, stopped>>

\* Acquire's eviction after LockConditionalUpdateFailedError
AcquireEvict(p) ==
    LET me == th[p]["caller"] IN
    /\ me.pc = "acq_evict"
    /\ locks' = [locks EXCEPT ![p] = MapDelete(locks[p], me.id)]
    /\ Return(p, "caller", "UNAVAILABLE")
    /\ UNCHANGED <<table, clock, advances, ops, nextVersion, shell, idsMap,
                   events, contended, stopped>>

\* putNewLock's PutItem under attribute_not_exists(LockID); a failed
\* condition comes back as the SDK's error, untranslated
AcquirePut(p) ==
    LET me == th[p]["caller"] IN
    /\ me.pc = "acq_put"
    /\ IF me.id \notin DOMAIN table
       THEN /\ \E shard \in 0 .. (lockMaxShards - 1) :
                 LET lock == FreshLock(p, me.id, me.newData, me.now,
                                       nextVersion, shard)
                 IN /\ table' = MapPut(table, me.id, lock)
                    /\ Set(p, "caller", [me EXCEPT !.pc = "acq_pstore",
                                                   !.lock = lock,
                                                   !.issued = TRUE])
            /\ nextVersion' = nextVersion + 1
       ELSE /\ Set(p, "caller", Finished([me EXCEPT !.issued = TRUE],
                                         "ConditionalCheckFailedException"))
            /\ UNCHANGED <<table, nextVersion, stopped>>
    /\ UNCHANGED <<locks, clock, advances, ops, shell, idsMap, events,
                   contended, stopped>>

\* putNewLock's d.locks[id] = lock
AcquirePStore(p) ==
    LET me == th[p]["caller"] IN
    /\ me.pc = "acq_pstore"
    /\ locks' = [locks EXCEPT ![p] = MapPut(locks[p], me.id, me.lock)]
    /\ Return(p, "caller", "ok")
    /\ UNCHANGED <<table, clock, advances, ops, nextVersion, shell, idsMap,
                   events, contended, stopped>>

\* ------------------------------------------------------------- Heartbeat
HeartbeatStart(p, id, maybeNewData) ==
    /\ MayCall(p)
    /\ ops' = ops - 1
    /\ th[p]["caller"].pc = "idle"
    /\ Set(p, "caller", [Idle EXCEPT !.pc = "hb_begin", !.op = "Heartbeat",
                                     !.id = id, !.newData = maybeNewData])
    /\ contended' = contended \ {p}
    /\ UNCHANGED <<table, locks, clock, advances, nextVersion, stopped>>

TickUnlessFailed(p) ==
    /\ ops > 0
    /\ p \notin stopped
    /\ ops' = ops - 1
    /\ \A id \in LockIDs : th[p][id].pc = "idle"
    /\ \A id \in LockIDs : th[p][id].res \in {"none", "ok"}
    /\ DOMAIN locks[p] # {}
    /\ th' = [th EXCEPT ![p] = [t \in Threads |->
                IF t \in DOMAIN locks[p]
                THEN [Idle EXCEPT !.pc = "hb_begin", !.op = "Heartbeat",
                                  !.id = t]
                ELSE th[p][t]]]
    /\ UNCHANGED <<table, locks, clock, advances, nextVersion, shell, idsMap,
                   events, contended, stopped>>

\* The ticker case of the background goroutine: snapshot the ids of d.locks
\* and start one Heartbeat(lockID, nil) goroutine per id.  The previous
\* tick's goroutines have all finished (wg.Wait).
Tick(p) ==
    /\ ops > 0
    /\ p \notin stopped
    /\ ops' = ops - 1
    /\ \A id \in LockIDs : th[p][id].pc = "idle"
    /\ DOMAIN locks[p] # {}
    /\ th' = [th EXCEPT ![p] = [t \in Threads |->
                IF t \in DOMAIN locks[p]
                THEN [Idle EXCEPT !.pc = "hb_begin", !.op = "Heartbeat",
                                  !.id = t]
                ELSE th[p][t]]]
    /\ UNCHANGED <<table, locks, clock, advances, nextVersion, shell, idsMap,
                   events, contended, stopped>>

\* what Heartbeat's caller does with the returned error: the background
\* goroutine deletes the entry on LockAbandonedError, a direct caller does not
HeartbeatReturn(p, t, result) ==
    IF t # "caller" /\ result = "ABANDONED"
    THEN Set(p, t, [Finished(th[p][t], result) EXCEPT !.pc = "loop_evict"])
    ELSE Return(p, t, result)

HeartbeatBeginFetches(p, t) ==
    LET me == th[p][t] IN
    /\ me.pc = "hb_begin"
    /\ IF me.id \notin DOMAIN locks[p]
       THEN IF me.id \in DOMAIN table
            THEN Set(p, t, [me EXCEPT
                     !.pc = "hb_put", !.existing = table[me.id],
                     !.now = clock, !.issued = TRUE,
                     !.newData = IF me.newData = Nil THEN table[me.id].Data
                                 ELSE me.newData])
            ELSE HeartbeatReturn(p, t, "NOT_FOUND")
       ELSE LET existingLock == locks[p][me.id] IN
            IF IsAbandoned(existingLock, clock)
            THEN HeartbeatReturn(p, t, "ABANDONED")
            ELSE Set(p, t, [me EXCEPT
                     !.pc = "hb_put", !.existing = existingLock,
                     !.now = clock, !.mu = FALSE,
                     !.newData = IF me.newData = Nil THEN existingLock.Data
                                 ELSE me.newData])
    /\ UNCHANGED <<table, locks, clock, advances, ops, nextVersion, shell,
                   idsMap, events, stopped, contended>>

\* Heartbeat up to its remote call: getLocalLock, the abandonment test, the
\* choice of the data to write
HeartbeatBegin(p, t) ==
    LET me == th[p][t] IN
    /\ me.pc = "hb_begin"
    /\ IF me.id \notin DOMAIN locks[p]
       THEN HeartbeatReturn(p, t, "NOT_FOUND")
       ELSE LET existingLock == locks[p][me.id] IN
            IF IsAbandoned(existingLock, clock)
            THEN HeartbeatReturn(p, t, "ABANDONED")
            ELSE Set(p, t, [me EXCEPT
                     !.pc = "hb_put", !.existing = existingLock,
                     !.now = clock, !.mu = FALSE,
                     !.newData = IF me.newData = Nil THEN existingLock.Data
                                 ELSE me.newData])
    /\ UNCHANGED <<table, locks, clock, advances, ops, nextVersion, shell,
                   idsMap, events, contended, stopped>>

HeartbeatPut(p, t) ==
    /\ th[p][t].pc = "hb_put"
    /\ UpdatePut(p, t, "hb_store", "hb_evict")
    /\ UNCHANGED <<locks, clock, advances, ops, shell, idsMap, events,
                   contended, stopped>>

HeartbeatPutFailsEvicts(p, t) ==
    LET me == th[p][t] IN
    /\ me.pc = "hb_put"
    /\ \E applied \in BOOLEAN :
         IF applied /\ UpdateCondition(table, me.existing, me.now)
         THEN /\ table' = MapPut(table, me.id,
                      UpdatedLock(p, me.existing, me.newData, me.now,
                                  nextVersion))
              /\ nextVersion' = nextVersion + 1
         ELSE UNCHANGED <<table, nextVersion>>
    /\ locks' = [locks EXCEPT ![p] = MapDelete(locks[p], me.id)]
    /\ Set(p, t, Finished([me EXCEPT !.issued = TRUE], "HEARTBEAT_FAILED"))
    /\ UNCHANGED <<clock, advances, ops, shell, idsMap, events, contended,
                   stopped>>

\* updateExistingLock's PutItem comes back with an error that is not a
\* ConditionalCheckFailedException (throttling, a timeout, a broken
\* connection): Heartbeat returns it with LockHeartbeatFailedError and leaves
\* d.locks alone.  The request may or may not have been applied.
HeartbeatPutFails(p, t) ==
    LET me == th[p][t] IN
    /\ me.pc = "hb_put"
    /\ \E applied \in BOOLEAN :
         IF applied /\ UpdateCondition(table, me.existing, me.now)
         THEN /\ table' = MapPut(table, me.id,
                      UpdatedLock(p, me.existing, me.newData, me.now,
                                  nextVersion))
              /\ nextVersion' = nextVersion + 1
         ELSE UNCHANGED <<table, nextVersion>>
    /\ Set(p, t, Finished([me EXCEPT !.issued = TRUE], "HEARTBEAT_FAILED"))
    /\ UNCHANGED <<locks, clock, advances, ops, shell, idsMap, events,
                   contended, stopped>>

\* updateExistingLock's d.locks[existingLock.ID] = newLock
HeartbeatStore(p, t) ==
    LET me == th[p][t] IN
    /\ me.pc = "hb_store"
    /\ locks' = [locks EXCEPT ![p] = MapPut(locks[p], me.id, me.lock)]
    /\ HeartbeatReturn(p, t, "ok")
    /\ UNCHANGED <<table, clock, advances, ops, nextVersion, shell, idsMap,
                   events, contended, stopped>>

HeartbeatEvictKeepsEntry(p, t) ==
    LET me == th[p][t] IN
    /\ me.pc = "hb_evict"
    /\ HeartbeatReturn(p, t, "UNAVAILABLE")
    /\ UNCHANGED <<table, locks, clock, advances, nextVersion, ops, shell,
                   idsMap, events, contended, stopped>>

\* Heartbeat's eviction after LockConditionalUpdateFailedError
HeartbeatEvict(p, t) ==
    LET me == th[p][t] IN
    /\ me.pc = "hb_evict"
    /\ locks' = [locks EXCEPT ![p] = MapDelete(locks[p], me.id)]
    /\ HeartbeatReturn(p, t, "UNAVAILABLE")
    /\ UNCHANGED <<table, clock, advances, ops, nextVersion, shell, idsMap,
                   events, contended, stopped>>

LoopEvictReleases(p, t) ==
    LET me == th[p][t] IN
    /\ t # "caller"
    /\ me.pc = "loop_evict"
    /\ locks' = [locks EXCEPT ![p] = MapDelete(locks[p], me.id)]
    /\ table' = MapDelete(table, me.id)
    /\ Set(p, t, Finished(me, me.res))
    /\ UNCHANGED <<clock, advances, nextVersion, ops, shell, idsMap, events,
                   contended, stopped>>

\* the background goroutine's delete(d.locks, lockID) on LockAbandonedError
LoopEvict(p, t) ==
    LET me == th[p][t] IN
    /\ t # "caller"
    /\ me.pc = "loop_evict"
    /\ locks' = [locks EXCEPT ![p] = MapDelete(locks[p], me.id)]
    /\ Set(p, t, Finished(me, me.res))
    /\ UNCHANGED <<table, clock, advances, ops, nextVersion, shell, idsMap,
                   events, contended, stopped>>

\* --------------------------------------------------------------- Release
ReleaseStart(p, id) ==
    /\ MayCall(p)
    /\ ops' = ops - 1
    /\ th[p]["caller"].pc = "idle"
    /\ Set(p, "caller", [Idle EXCEPT !.pc = "rel_begin", !.op = "Release",
                                     !.id = id,
                                     !.again = /\ th[p]["caller"].op = "Release"
                                               /\ th[p]["caller"].id = id])
    /\ contended' = contended \ {p}
    /\ UNCHANGED <<table, locks, clock, advances, nextVersion, stopped>>

\* Release's getLocalLock
ReleaseBegin(p) ==
    LET me == th[p]["caller"] IN
    /\ me.pc = "rel_begin"
    /\ IF me.id \notin DOMAIN locks[p]
       THEN Return(p, "caller", "NOT_FOUND")
       ELSE Set(p, "caller", [me EXCEPT !.pc = "rel_evict", !.mu = FALSE,
                                        !.existing = locks[p][me.id]])
    /\ UNCHANGED <<table, locks, clock, advances, ops, nextVersion, shell,
                   idsMap, events, contended, stopped>>

ReleaseEvictDefersUnlock(p) ==
    LET me == th[p]["caller"] IN
    /\ me.pc = "rel_evict"
    /\ locks' = [locks EXCEPT ![p] = MapDelete(locks[p], me.id)]
    /\ Set(p, "caller", [me EXCEPT !.pc = "rel_delete"])
    /\ UNCHANGED <<table, clock, advances, ops, nextVersion, shell, idsMap,
                   events, contended, stopped>>

\* releaseLock's d.mu.Lock(); delete(d.locks, existingLock.ID); d.mu.Unlock()
ReleaseEvict(p) ==
    LET me == th[p]["caller"] IN
    /\ me.pc = "rel_evict"
    /\ locks' = [locks EXCEPT ![p] = MapDelete(locks[p], me.id)]
    /\ Set(p, "caller", [me EXCEPT !.pc = "rel_delete", !.mu = FALSE])
    /\ UNCHANGED <<table, clock, advances, ops, nextVersion, shell, idsMap,
                   events, contended, stopped>>

\* releaseLock's conditional DeleteItem
ReleaseDelete(p) ==
    LET me == th[p]["caller"] IN
    /\ me.pc = "rel_delete"
    /\ IF ReleaseCondition(table, me.existing, p)
       THEN /\ table' = MapDelete(table, me.id)
            /\ Set(p, "caller", Finished([me EXCEPT !.issued = TRUE], "ok"))
       ELSE /\ table' = table
            /\ Set(p, "caller", Finished([me EXCEPT !.issued = TRUE],
                                         "RELEASE_FAILED"))
    /\ UNCHANGED <<locks, clock, advances, ops, nextVersion, shell, idsMap,
                   events, contended, stopped>>

\* ----------------------------------------------------------------- Close
\* Close blocks in its send on the unbuffered d.stopBackgroundJobs
CloseStart(p) ==
    /\ MayCall(p)
    /\ ops' = ops - 1
    /\ th[p]["caller"].pc = "idle"
    /\ Set(p, "caller", [Idle EXCEPT !.pc = "close_send", !.op = "Close"])
    /\ contended' = contended \ {p}
    /\ UNCHANGED <<table, locks, clock, advances, nextVersion, stopped>>

LoopStopReleases(p) ==
    /\ th[p]["caller"].pc = "close_send"
    /\ p \notin stopped
    /\ \A id \in LockIDs : th[p][id].pc = "idle"
    /\ stopped' = stopped \cup {p}
    /\ table' = [id \in DOMAIN table \ DOMAIN locks[p] |-> table[id]]
    /\ locks' = [locks EXCEPT ![p] = EmptyMap]
    /\ Set(p, "caller", [th[p]["caller"] EXCEPT !.pc = "close_return"])
    /\ UNCHANGED <<clock, advances, ops, nextVersion, shell, idsMap, events,
                   contended>>

LoopStopMidTick(p) ==
    /\ th[p]["caller"].pc = "close_send"
    /\ p \notin stopped
    /\ stopped' = stopped \cup {p}
    /\ Set(p, "caller", [th[p]["caller"] EXCEPT !.pc = "close_return"])
    /\ UNCHANGED <<table, locks, clock, advances, ops, nextVersion, shell,
                   idsMap, events, contended>>

\* The background goroutine's select takes the stop case: it is back in the
\* select only after wg.Wait, the receive completes Close's send, and the
\* goroutine returns.  After it has returned nobody receives, and a later
\* Close stays in its send.
LoopStop(p) ==
    /\ th[p]["caller"].pc = "close_send"
    /\ p \notin stopped
    /\ \A id \in LockIDs : th[p][id].pc = "idle"
    /\ stopped' = stopped \cup {p}
    /\ Set(p, "caller", [th[p]["caller"] EXCEPT !.pc = "close_return"])
    /\ UNCHANGED <<table, locks, clock, advances, ops, nextVersion, shell,
                   idsMap, events, contended>>

\* Close's return nil
CloseReturn(p) ==
    /\ th[p]["caller"].pc = "close_return"
    /\ Return(p, "caller", "ok")
    /\ UNCHANGED <<table, locks, clock, advances, ops, nextVersion, shell,
                   idsMap, events, stopped, contended>>

\* ------------------------------------------------- the manager's own steps
\* the steps that are enabled only after a lease has run out or a lock has
\* grown older than the abandonment threshold
ExpiryStep(p) ==
    \/ AcquireUpdate(p)
    \/ AcquireUStore(p)
    \/ AcquireEvict(p)
    \/ \E t \in Threads : LoopEvict(p, t)

PromptStep(p) ==
    \/ AcquireGet(p)
    \/ AcquireCache(p)
    \/ AcquirePut(p)
    \/ AcquirePStore(p)
    \/ ReleaseBegin(p)
    \/ ReleaseEvict(p)
    \/ ReleaseDelete(p)
    \/ Tick(p)
    \/ \E t \in Threads : HeartbeatBegin(p, t)
    \/ \E t \in Threads : HeartbeatPut(p, t)
    \/ \E t \in Threads : HeartbeatStore(p, t)
    \/ \E t \in Threads : HeartbeatEvict(p, t)

CloseStep(p) == LoopStop(p) \/ CloseReturn(p)

Step(p) == PromptStep(p) \/ ExpiryStep(p)

\* ------------------------------------- any caller of the LockClient interface
CallAcquire(p) ==
    /\ \E id \in LockIDs, data \in Payloads : AcquireStart(p, id, data)
    /\ UNCHANGED <<shell, idsMap, events>>

CallHeartbeat(p) ==
    /\ \E id \in LockIDs, d \in {Nil} \cup Payloads : HeartbeatStart(p, id, d)
    /\ UNCHANGED <<shell, idsMap, events>>

CallRelease(p) ==
    /\ \E id \in LockIDs : ReleaseStart(p, id)
    /\ UNCHANGED <<shell, idsMap, events>>

Next ==
    \/ Advance
    \/ \E p \in Processes : CallAcquire(p)
    \/ \E p \in Processes : CallHeartbeat(p)
    \/ \E p \in Processes : CallRelease(p)
    \/ \E p \in Processes : Step(p)

Spec == Init /\ [][Next]_vars

\* ------------------------------------------- contenders for a dead lock
\* The two processes start next to the item of a third instance that
\* acquired the id at time 0 and is gone: nobody heartbeats or releases it.
Gone == "Z"

StealInit ==
    /\ table = [id \in LockIDs |-> FreshLock(Gone, id, "", 0, 0, 0)]
    /\ locks = [p \in Processes |-> EmptyMap]
    /\ th = [p \in Processes |-> [t \in Threads |-> Idle]]
    /\ clock = 0
    /\ advances = 0
    /\ nextVersion = 1
    /\ ops = MaxOps
    /\ shell = [p \in Processes |-> "pending"]
    /\ idsMap = NewIDsMap
    /\ events = [e \in Events |-> Undelivered]
    /\ stopped = {}
    /\ contended = {}

StealSpec == StealInit /\ [][Next]_vars

\* ------------------------------------------ acquirers and their loops
\* The processes only call Acquire; every heartbeat is one of a background
\* goroutine's tick.
AcquirerStep(p) ==
    \/ AcquireGet(p)
    \/ AcquireCache(p)
    \/ AcquirePut(p)
    \/ AcquirePStore(p)
    \/ AcquireUpdate(p)
    \/ AcquireUStore(p)
    \/ AcquireEvict(p)
    \/ Tick(p)
    \/ \E t \in LockIDs : HeartbeatBegin(p, t)
    \/ \E t \in LockIDs : HeartbeatPut(p, t)
    \/ \E t \in LockIDs : HeartbeatStore(p, t)
    \/ \E t \in LockIDs : HeartbeatEvict(p, t)
    \/ \E t \in LockIDs : LoopEvict(p, t)

AcquirerNext ==
    \/ Advance
    \/ \E p \in Processes : CallAcquire(p)
    \/ \E p \in Processes : AcquirerStep(p)

AcquirerSpec == Init /\ [][AcquirerNext]_vars

\* --------------------------------------------- one process and its loop
\* One process alone with its background goroutine, from construction to
\* Close: the other process never calls, and the run is MaxSoloOps long.
Solo == "A"

SoloInit ==
    /\ table = EmptyMap
    /\ locks = [p \in Processes |-> EmptyMap]
    /\ th = [p \in Processes |-> [t \in Threads |-> Idle]]
    /\ clock = 0
    /\ advances = 0
    /\ nextVersion = 1
    /\ ops = MaxSoloOps
    /\ shell = [p \in Processes |-> "pending"]
    /\ idsMap = NewIDsMap
    /\ events = [e \in Events |-> Undelivered]
    /\ stopped = {}
    /\ contended = {}

CallClose(p) ==
    /\ CloseStart(p)
    /\ UNCHANGED <<shell, idsMap, events>>

SoloNext ==
    \/ Advance
    \/ CallAcquire(Solo)
    \/ CallHeartbeat(Solo)
    \/ CallRelease(Solo)
    \/ CallClose(Solo)
    \/ Step(Solo)
    \/ CloseStep(Solo)

SoloSpec == SoloInit /\ [][SoloNext]_vars

\* The process alone, whose callers also pass Acquire the empty id.
CallAcquireNoID(p) ==
    /\ \E data \in Payloads : AcquireStart(p, "", data)
    /\ UNCHANGED <<shell, idsMap, events>>

\* The process alone, with a table whose answers to a heartbeat's PutItem may
\* be errors.
FaultNext ==
    \/ SoloNext
    \/ \E t \in Threads : HeartbeatPutFails(Solo, t)

FaultSpec == Init /\ [][FaultNext]_vars

\* ------------------------------------------------- the registry mutex
\* In the specifications above a critical section of d.mu is one step.  Here
\* d.mu.Lock() is a step of its own: a goroutine that is before a critical
\* section takes the mutex when no goroutine of its process holds it, takes
\* the section's step holding it, and gives it up where the code unlocks.
CriticalPcs == {"acq_cache", "acq_ustore", "acq_evict", "acq_pstore",
                "hb_begin", "hb_store", "hb_evict", "loop_evict",
                "rel_begin", "rel_evict"}

RemotePcs == {"acq_get", "acq_put", "acq_update", "hb_put", "rel_delete"}

MuFree(p) == \A t \in Threads : ~th[p][t].mu

LockMu(p, t) ==
    /\ th[p][t].pc \in CriticalPcs
    /\ MuFree(p)
    /\ Set(p, t, [th[p][t] EXCEPT !.mu = TRUE])
    /\ UNCHANGED <<table, locks, clock, advances, nextVersion, ops, shell,
                   idsMap, events, contended, stopped>>

RemoteStep(p) ==
    \/ AcquireGet(p)
    \/ AcquirePut(p)
    \/ AcquireUpdate(p)
    \/ ReleaseDelete(p)
    \/ \E t \in Threads : HeartbeatPut(p, t)

Held(p, t) == th[p][t].mu

CallerSection(p) ==
    \/ Held(p, "caller") /\ AcquireCache(p)
    \/ Held(p, "caller") /\ AcquireUStore(p)
    \/ Held(p, "caller") /\ AcquireEvict(p)
    \/ Held(p, "caller") /\ AcquirePStore(p)
    \/ Held(p, "caller") /\ ReleaseBegin(p)
    \/ Held(p, "caller") /\ ReleaseEvict(p)

HeartbeatSection(p, t) ==
    \/ Held(p, t) /\ HeartbeatBegin(p, t)
    \/ Held(p, t) /\ HeartbeatStore(p, t)
    \/ Held(p, t) /\ HeartbeatEvict(p, t)
    \/ Held(p, t) /\ LoopEvict(p, t)

\* the tick's snapshot of the ids: Lock, copy, Unlock
SnapshotSection(p) == MuFree(p) /\ Tick(p)

MutexNext ==
    \/ Advance
    \/ CallAcquire(Solo)
    \/ CallHeartbeat(Solo)
    \/ CallRelease(Solo)
    \/ \E t \in Threads : LockMu(Solo, t)
    \/ RemoteStep(Solo)
    \/ CallerSection(Solo)
    \/ \E t \in Threads : HeartbeatSection(Solo, t)
    \/ SnapshotSection(Solo)

MutexSpec == Init /\ [][MutexNext]_vars

\* The process alone over a long time: the clock may also move past the
\* abandonment threshold by more than a heartbeat interval and a lease.
LateAdvance ==
    /\ advances < MaxAdvances
    /\ clock' = clock + abandonLockAfterMilliseconds
                      + lockHeartbeatIntervalSeconds * 1000 + LeaseMs
    /\ advances' = advances + 1
    /\ UNCHANGED <<table, locks, th, nextVersion, ops, shell, idsMap, events,
                   contended, stopped>>

LateNext ==
    \/ SoloNext
    \/ LateAdvance

LateSpec == Init /\ [][LateNext]_vars

InputNext ==
    \/ SoloNext
    \/ CallAcquireNoID(Solo)

InputSpec == Init /\ [][InputNext]_vars

\* Remote calls in flight complete, every goroutine that can take a step
\* takes it, and a select whose stop case is ready again and again takes it.
SoloFairness ==
    /\ WF_vars(Step(Solo))
    /\ WF_vars(CloseReturn(Solo))
    /\ SF_vars(LoopStop(Solo))

\* the fair runs of the process alone, MaxOps long
SoloLiveSpec == Init /\ [][SoloNext]_vars /\ SoloFairness

\* ------------------------------------------------- the records' arithmetic
\* The records putNewLock and updateExistingLock build, for every configured
\* lease of at least a second and for times at both ends and in the middle
\* of a second.
TtlTimes == {s * 1000 + ms : s \in 0 .. MaxSeconds, ms \in {0, 1, 500, 999}}

TtlAdvance ==
    /\ \E t \in TtlTimes : t > clock /\ clock' = t
    /\ UNCHANGED <<table, locks, th, advances, nextVersion, ops, shell,
                   idsMap, events, stopped, contended>>

TtlPut(p, id) ==
    /\ id \notin DOMAIN table
    /\ nextVersion <= MaxWrites
    /\ \E LeaseDurationSeconds \in 1 .. MaxLeaseSeconds :
       \E shard \in 0 .. (lockMaxShards - 1) :
          table' = MapPut(table, id,
                          FreshLockFor(p, id, "", clock, nextVersion, shard,
                                       LeaseDurationSeconds))
    /\ nextVersion' = nextVersion + 1
    /\ UNCHANGED <<locks, th, clock, advances, ops, shell, idsMap, events,
                   stopped, contended>>

TtlUpdate(p, id) ==
    /\ id \in DOMAIN table
    /\ nextVersion <= MaxWrites
    /\ \E LeaseDurationSeconds \in 1 .. MaxLeaseSeconds :
          table' = MapPut(table, id,
                          UpdatedLockFor(p, table[id], "", clock,
                                         nextVersion, LeaseDurationSeconds))
    /\ nextVersion' = nextVersion + 1
    /\ UNCHANGED <<locks, th, clock, advances, ops, shell, idsMap, events,
                   stopped, contended>>

TtlNext ==
    \/ TtlAdvance
    \/ \E p \in Processes, id \in LockIDs : TtlPut(p, id)
    \/ \E p \in Processes, id \in LockIDs : TtlUpdate(p, id)

TtlSpec == Init /\ [][TtlNext]_vars

\* ------------------------------------------------------------ the shell
\* The MessageCreate / InteractionCreate handlers: every instance receives
\* the event, calls Acquire(event id, ""), returns on any error, otherwise
\* does the work and releases in a deferred call.
ShellAcquire(p) ==
    /\ shell[p] = "pending"
    /\ \E id \in LockIDs, data \in Payloads : AcquireStart(p, id, data)
    /\ shell' = [shell EXCEPT ![p] = "acquiring"]
    /\ UNCHANGED <<idsMap, events>>

ShellAcquiredAlways(p) ==
    /\ shell[p] = "acquiring"
    /\ th[p]["caller"].pc = "idle"
    /\ shell' = [shell EXCEPT ![p] = "working"]
    /\ UNCHANGED <<idsMap, events>>
    /\ UNCHANGED <<table, locks, th, clock, advances, nextVersion, ops,
                   contended, stopped>>

\* the handler's if err != nil { return } after Acquire; otherwise it defers
\* the Release and does the work
ShellAcquired(p) ==
    /\ shell[p] = "acquiring"
    /\ th[p]["caller"].pc = "idle"
    /\ shell' = [shell EXCEPT ![p] = IF th[p]["caller"].res = "ok"
                                     THEN "working" ELSE "skipped"]
    /\ UNCHANGED <<idsMap, events>>
    /\ UNCHANGED <<table, locks, th, clock, advances, nextVersion, ops,
                   contended, stopped>>

ShellRelease(p) ==
    /\ shell[p] = "working"
    /\ ReleaseStart(p, th[p]["caller"].id)
    /\ shell' = [shell EXCEPT ![p] = "releasing"]
    /\ UNCHANGED <<idsMap, events>>

ShellReleased(p) ==
    /\ shell[p] = "releasing"
    /\ th[p]["caller"].pc = "idle"
    /\ shell' = [shell EXCEPT ![p] = "released"]
    /\ UNCHANGED <<idsMap, events>>
    /\ UNCHANGED <<table, locks, th, clock, advances, nextVersion, ops,
                   contended, stopped>>

\* While a handler runs its remote calls take milliseconds, far less than a
\* lease: in the shell's runs time moves a millisecond at a time, no lease
\* runs out, and the manager takes its prompt steps only.
ShellAdvance ==
    /\ advances < MaxAdvances
    /\ clock' = clock + 1
    /\ advances' = advances + 1
    /\ UNCHANGED <<table, locks, th, nextVersion, ops, shell, idsMap, events,
                   contended, stopped>>

ShellNext ==
    \/ ShellAdvance
    \/ \E p \in Processes : ShellAcquire(p)
    \/ \E p \in Processes : ShellAcquired(p)
    \/ \E p \in Processes : ShellRelease(p)
    \/ \E p \in Processes : ShellReleased(p)
    \/ \E p \in Processes : PromptStep(p)

ShellSpec == Init /\ [][ShellNext]_vars

\* ------------------------------------------------------ the shell's idsMap
\* The handlers setupDiscordCommands and NewDiscord register, as far as they
\* touch d.idsMap. discordgo runs every handler in a goroutine of its own.
clientVars == <<table, locks, th, clock, advances, nextVersion, ops, shell,
                stopped, contended>>

SetEvent(e, pc) == events' = [events EXCEPT ![e].pc = pc]

\* sync.RWMutex: RLock waits while a writer is inside Lock()..Unlock(), Lock
\* announces itself and then waits until the read locks are given back.
RLocked(m) == [m EXCEPT !.readerCount = @ + 1]
RUnlocked(m) == [m EXCEPT !.readerCount = @ - 1]
Unlocked(m) == [m EXCEPT !.writer = 0, !.writing = FALSE]

\* the gateway delivers the next event; a MessageCreate whose Acquire failed
\* returns before it touches idsMap
Deliver(e) ==
    /\ events[e].pc = "undelivered"
    /\ \A f \in Events : f < e => events[f].pc # "undelivered"
    /\ \E type \in EventTypes, channel \in ChannelIDs, acquired \in BOOLEAN :
          /\ type # "MessageCreate" => acquired
          /\ events' = [events EXCEPT ![e] =
                 [pc |-> CASE ~acquired -> "returned"
                           [] type \in {"InteractionCreate", "MessageCreate"}
                                -> "rlock"
                           [] OTHER -> "lock",
                  type |-> type, channel |-> channel]]
    /\ UNCHANGED idsMap
    /\ UNCHANGED clientVars

\* d.idsMap.RLock()
RLock(e) ==
    /\ events[e].pc \in {"rlock", "rlock2"}
    /\ idsMap.writer = 0
    /\ idsMap' = RLocked(idsMap)
    /\ SetEvent(e, IF events[e].pc = "rlock" THEN "check" ELSE "check2")
    /\ UNCHANGED clientVars

\* the InteractionCreate handler: an interaction from a channel that is not
\* in channelIDs returns at once, any other gives the read lock back and
\* goes on to the command
InteractionCreate(e) ==
    /\ events[e].type = "InteractionCreate"
    /\ events[e].pc = "check"
    /\ IF events[e].channel \notin idsMap.channelIDs
       THEN /\ SetEvent(e, "returned")
            /\ UNCHANGED idsMap
       ELSE /\ idsMap' = RUnlocked(idsMap)
            /\ SetEvent(e, "command")
    /\ UNCHANGED clientVars

\* the command runs under the advisory lock and the handler returns
InteractionCommand(e) ==
    /\ events[e].pc = "command"
    /\ SetEvent(e, "returned")
    /\ UNCHANGED idsMap
    /\ UNCHANGED clientVars

\* the MessageCreate handler's shouldCreateThread closure, its RUnlock
\* deferred: a message in a listed channel that has no thread yet starts
\* one and the handler returns, any other goes on to updateThreads
MessageShouldCreateThread(e) ==
    /\ events[e].type = "MessageCreate"
    /\ events[e].pc = "check"
    /\ idsMap' = RUnlocked(idsMap)
    /\ \E hasThread \in BOOLEAN :
          SetEvent(e, IF events[e].channel \in idsMap.channelIDs /\ ~hasThread
                      THEN "returned" ELSE "lock")
    /\ UNCHANGED clientVars

\* d.idsMap.Lock(), first half: the writer announces itself
Lock(e) ==
    /\ events[e].pc = "lock"
    /\ idsMap.writer = 0
    /\ idsMap' = [idsMap EXCEPT !.writer = e]
    /\ SetEvent(e, "drain")
    /\ UNCHANGED clientVars

\* d.idsMap.Lock(), second half: the read locks have been given back
LockTaken(e) ==
    /\ events[e].pc = "drain"
    /\ idsMap.writer = e
    /\ idsMap.readerCount = 0
    /\ idsMap' = [idsMap EXCEPT !.writing = TRUE]
    /\ SetEvent(e, "update")
    /\ UNCHANGED clientVars

\* updateChannels under the write lock, its Unlock deferred: the channels
\* Discord lists become channelIDs, or GuildChannels fails and the map stays
updateChannels(e) ==
    /\ events[e].type \in {"ChannelCreate", "ChannelDelete"}
    /\ events[e].pc = "update"
    /\ \E err \in BOOLEAN, newChannelIDs \in SUBSET ChannelIDs :
          idsMap' = Unlocked(IF err THEN idsMap
                             ELSE [idsMap EXCEPT
                                     !.channelIDs = newChannelIDs])
    /\ SetEvent(e, "returned")
    /\ UNCHANGED clientVars

\* updateThreads under the write lock, its Unlock deferred: the active
\* threads of the listed channels become threadIDs, or ThreadsActive fails
\* and the map stays; the MessageCreate handler then looks its thread up
updateThreads(e) ==
    /\ events[e].type = "MessageCreate"
    /\ events[e].pc = "update"
    /\ \E err \in BOOLEAN, newThreadIDs \in SUBSET ThreadIDs :
          idsMap' = Unlocked(
              CASE idsMap.channelIDs = {} -> [idsMap EXCEPT !.threadIDs = {}]
                [] err -> idsMap
                [] OTHER -> [idsMap EXCEPT !.threadIDs = newThreadIDs])
    /\ SetEvent(e, "rlock2")
    /\ UNCHANGED clientVars

\* the MessageCreate handler's unknownThread closure, its RUnlock deferred
MessageUnknownThread(e) ==
    /\ events[e].type = "MessageCreate"
    /\ events[e].pc = "check2"
    /\ idsMap' = RUnlocked(idsMap)
    /\ SetEvent(e, "returned")
    /\ UNCHANGED clientVars

IdsNext ==
    \E e \in Events :
        \/ Deliver(e)
        \/ RLock(e)
        \/ InteractionCreate(e)
        \/ InteractionCommand(e)
        \/ MessageShouldCreateThread(e)
        \/ Lock(e)
        \/ LockTaken(e)
        \/ updateChannels(e)
        \/ updateThreads(e)
        \/ MessageUnknownThread(e)

IdsSpec == Init /\ [][IdsNext]_vars

\* ==================================================================== claims
Caller(p) == th[p]["caller"]

\* goroutine t of process p takes this step
Steps(p, t) == th'[p][t] # th[p][t]

\* the records for id that exist: the table's item and every registry entry
Records(id) ==
    (IF id \in DOMAIN table THEN {table[id]} ELSE {})
    \cup {locks[p][id] : p \in {q \in Processes : id \in DOMAIN locks[q]}}

LiveOwners(id) ==
    {r.Owner : r \in {x \in Records(id) :
        x.LastUpdatedTimeMilliseconds + x.LeaseDurationMilliseconds >= clock}}

\* C1: mutual exclusion: at every instant at most one owner has a live
\* record for an id, the table's item and what each process holds in its
\* registry taken together.
C1_MutualExclusion ==
    \A id \in LockIDs : Cardinality(LiveOwners(id)) <= 1

\* C2: of two Acquire calls that both read the id absent, one returns
\* success and the other LockCurrentlyUnavailableError, and the loser's
\* registry has no entry for the id.
C2_RaceLoserUnavailable ==
    \A p \in contended : \A q \in contended \ {p} :
        (Caller(p).pc = "idle" /\ Caller(q).pc = "idle") =>
            \E w \in {p, q} : \E l \in {p, q} \ {w} :
                /\ Caller(w).res = "ok"
                /\ Caller(l).res = "UNAVAILABLE"
                /\ Caller(l).id \notin DOMAIN locks[l]

\* C5: of the instances that all receive an event, at most one ever gets
\* the event's lock and does the work.
Handled == {p \in Processes : shell[p] \in {"working", "releasing", "released"}}

C5_OneInstanceHandles == Cardinality(Handled) <= 1

\* C6: once Release has returned (nil or LockReleaseFailedError) the
\* process's registry has no entry for the id until a later Acquire.
C6_ReleasedStaysEvicted ==
    \A p \in Processes :
        (/\ Caller(p).op = "Release"
         /\ Caller(p).pc = "idle"
         /\ Caller(p).res \in {"ok", "RELEASE_FAILED"})
        => Caller(p).id \notin DOMAIN locks[p]

\* C8: a heartbeat's put or a release's delete changes the table only if
\* the stored item's owner is the process's own owner and its record
\* version is the one the process read from its registry.
C8_TokenIsOwnOwnerAndVersion ==
    [][\A p \in Processes : \A t \in Threads :
        (/\ th[p][t].pc \in {"hb_put", "rel_delete"}
         /\ Steps(p, t)
         /\ table' # table)
        => /\ th[p][t].id \in DOMAIN table
           /\ table[th[p][t].id].Owner = Owner(p)
           /\ table[th[p][t].id].RecordVersionNumber
                = th[p][t].existing.RecordVersionNumber]_vars

\* C3 as stated: Acquire on an existing record returns UNAVAILABLE with the
\* table unchanged if and only if the record it read is not expired.
AcquireReturns(p) ==
    /\ Caller(p).pc \in {"acq_cache", "acq_evict", "acq_ustore"}
    /\ th'[p]["caller"].pc = "idle"

ReadExpired(r) ==
    r.now - r.existing.LastUpdatedTimeMilliseconds
        > r.existing.LeaseDurationMilliseconds

C3_UnavailableIffNotExpired ==
    [][\A p \in Processes :
        AcquireReturns(p) =>
            ((th'[p]["caller"].res = "UNAVAILABLE" /\ table' = table)
                <=> ~ReadExpired(Caller(p)))]_vars

\* C3 amended: Acquire on an existing record returns UNAVAILABLE without
\* issuing a remote write if and only if the record is not expired (strict:
\* refused at now - last_updated = lease); on an expired record it issues
\* the steal put, and returns UNAVAILABLE with the table unchanged when that
\* put fails its condition.
C3_RefusalIffNotExpired ==
    [][\A p \in Processes :
        /\ (Caller(p).pc = "acq_cache" /\ Steps(p, "caller")) =>
              IF ReadExpired(Caller(p))
              THEN th'[p]["caller"].pc = "acq_update"
              ELSE /\ th'[p]["caller"].pc = "idle"
                   /\ th'[p]["caller"].res = "UNAVAILABLE"
                   /\ ~th'[p]["caller"].issued
                   /\ table' = table
        /\ (Caller(p).pc = "acq_evict" /\ Steps(p, "caller")) =>
              /\ th'[p]["caller"].res = "UNAVAILABLE"
              /\ th'[p]["caller"].issued
              /\ ReadExpired(Caller(p))
              /\ table' = table]_vars

\* C3 witness: a refusal exactly at the lease boundary
C3_Witness ==
    \E p \in Processes :
        /\ Caller(p).op = "Acquire" /\ Caller(p).pc = "idle"
        /\ Caller(p).res = "UNAVAILABLE" /\ ~Caller(p).issued
        /\ Caller(p).id \in DOMAIN table
        /\ table[Caller(p).id].Owner # Owner(p)
        /\ clock - table[Caller(p).id].LastUpdatedTimeMilliseconds = LeaseMs

\* C4: an Acquire that read an expired record which no other process has
\* written since succeeds: the item then has the contender as owner, a new
\* record version and the old shard.
C4_StealSucceeds ==
    [][\A p \in Processes :
        (/\ Caller(p).pc = "acq_update"
         /\ Steps(p, "caller")
         /\ ReadExpired(Caller(p))
         /\ Caller(p).id \in DOMAIN table
         /\ \/ table[Caller(p).id] = Caller(p).existing
            \/ table[Caller(p).id].Owner = Owner(p))
        => /\ th'[p]["caller"].pc = "acq_ustore"
           /\ table'[Caller(p).id].Owner = Owner(p)
           /\ table'[Caller(p).id].RecordVersionNumber
                # Caller(p).existing.RecordVersionNumber
           /\ table'[Caller(p).id].Shard = Caller(p).existing.Shard]_vars

\* C7: when another process has replaced the item a process holds, the
\* holder's heartbeat put changes nothing, the heartbeat returns
\* LockCurrentlyUnavailableError and the holder's registry entry is gone.
C7_LostLeaseHeartbeat ==
    [][\A p \in Processes : \A t \in Threads :
        /\ (/\ th[p][t].pc = "hb_put" /\ Steps(p, t)
            /\ th[p][t].existing.Owner = Owner(p)
            /\ th[p][t].id \in DOMAIN table
            /\ table[th[p][t].id].Owner # Owner(p))
           => (table' = table /\ th'[p][t].pc = "hb_evict")
        /\ (th[p][t].pc = "hb_evict" /\ Steps(p, t))
           => /\ th'[p][t].res = "UNAVAILABLE"
              /\ th'[p][t].pc = "idle"
              /\ th[p][t].id \notin DOMAIN locks'[p]
              /\ table' = table]_vars

C7_Witness ==
    \E p \in Processes : \E t \in Threads :
        /\ th[p][t].op = "Heartbeat" /\ th[p][t].pc = "idle"
        /\ th[p][t].res = "UNAVAILABLE"
        /\ th[p][t].existing.Owner = Owner(p)
        /\ th[p][t].id \notin DOMAIN locks[p]
        /\ th[p][t].id \in DOMAIN table
        /\ table[th[p][t].id].Owner # Owner(p)

\* C9 as stated: a direct Heartbeat that finds the entry older than the
\* abandonment threshold returns LockAbandonedError and has removed the
\* entry from the registry when it returns.
C9_DirectHeartbeatEvicts ==
    [][\A p \in Processes :
        (/\ Caller(p).pc = "hb_begin" /\ Steps(p, "caller")
         /\ th'[p]["caller"].res = "ABANDONED")
        => Caller(p).id \notin DOMAIN locks'[p]]_vars

\* C9 amended: a Heartbeat that finds the entry older than the threshold
\* (now - created_at > 300000, strictly) returns LockAbandonedError and
\* leaves the registry as it is; the entry is removed by the background
\* goroutine after its Heartbeat returned LockAbandonedError, and a direct
\* caller's entry stays.
C9_AbandonedLeftToLoop ==
    [][\A p \in Processes : \A t \in Threads :
        /\ (/\ th[p][t].pc = "hb_begin" /\ Steps(p, t)
            /\ th[p][t].id \in DOMAIN locks[p])
           => IF clock - locks[p][th[p][t].id].CreatedAtMilliseconds
                   > abandonLockAfterMilliseconds
              THEN /\ th'[p][t].res = "ABANDONED"
                   /\ locks' = locks
                   /\ th'[p][t].pc
                        = IF t = "caller" THEN "idle" ELSE "loop_evict"
              ELSE th'[p][t].pc = "hb_put"
        /\ (th[p][t].pc = "loop_evict" /\ Steps(p, t))
           => th[p][t].id \notin DOMAIN locks'[p]]_vars

C9_Witness ==
    \E p \in Processes :
        /\ Caller(p).op = "Heartbeat" /\ Caller(p).pc = "idle"
        /\ Caller(p).res = "ABANDONED"
        /\ Caller(p).id \in DOMAIN locks[p]
        /\ clock - locks[p][Caller(p).id].CreatedAtMilliseconds
             > abandonLockAfterMilliseconds

\* C10: a heartbeat that detects abandonment, in a direct call or in the
\* background goroutine, issues no put and no delete, and the table stays
\* as it was, also through the goroutine's eviction.
C10_AbandonmentLeavesTable ==
    [][\A p \in Processes : \A t \in Threads :
        /\ (/\ th[p][t].pc = "hb_begin" /\ Steps(p, t)
            /\ th'[p][t].res = "ABANDONED")
           => /\ table' = table
              /\ ~th'[p][t].issued
              /\ th'[p][t].pc \in {"idle", "loop_evict"}
        /\ (th[p][t].pc = "loop_evict" /\ Steps(p, t))
           => /\ table' = table
              /\ ~th'[p][t].issued
              /\ th'[p][t].pc = "idle"]_vars

C10_Witness ==
    \E p \in Processes : \E t \in LockIDs :
        /\ th[p][t].op = "Heartbeat" /\ th[p][t].pc = "idle"
        /\ th[p][t].res = "ABANDONED" /\ ~th[p][t].issued
        /\ t \notin DOMAIN locks[p]
        /\ t \in DOMAIN table

\* C11: a successful Acquire followed by Release by the same process, with
\* no other process touching the id, leaves the table without an item for
\* the id, however the process's own background heartbeat interleaves.
C11_ReleaseLeavesNoRow ==
    [][(/\ Caller(Solo).pc = "rel_delete"
        /\ Steps(Solo, "caller")
        /\ Caller(Solo).existing.Owner = Owner(Solo))
       => Caller(Solo).id \notin DOMAIN table']_vars

\* C12: a Release that follows a Release of the same id, with no other call
\* of the process in between, returns LockNotFoundError at its registry
\* lookup: it issues no remote request and changes neither the registry nor
\* the table.
C12_SecondReleaseNotFound ==
    [][(/\ Caller(Solo).pc = "rel_begin"
        /\ Caller(Solo).again
        /\ Steps(Solo, "caller"))
       => /\ th'[Solo]["caller"].pc = "idle"
          /\ th'[Solo]["caller"].res = "NOT_FOUND"
          /\ ~th'[Solo]["caller"].issued
          /\ locks' = locks
          /\ table' = table]_vars

\* C13: when a process steals another owner's expired record, the record it
\* stores has the stealer as owner, a different record version, the old
\* shard, and the time of the steal as its creation time.
C13_StealRestampsCreation ==
    [][\A p \in Processes :
        (/\ Caller(p).pc = "acq_update"
         /\ Steps(p, "caller")
         /\ th'[p]["caller"].pc = "acq_ustore"
         /\ Caller(p).existing.Owner # Owner(p))
        => /\ table'[Caller(p).id].Owner = Owner(p)
           /\ table'[Caller(p).id].RecordVersionNumber
                # Caller(p).existing.RecordVersionNumber
           /\ table'[Caller(p).id].Shard = Caller(p).existing.Shard
           /\ table'[Caller(p).id].CreatedAtMilliseconds = Caller(p).now]_vars

\* C14: an Acquire on an id without an item, with no contender, stores an
\* item whose owner is the caller's configured owner, whose creation and
\* last-update times are both the call's now, and whose lease is 1000 times
\* the configured seconds; the lock it returns has the stored record version,
\* and the same record is in the caller's registry.
C14_FreshAcquireRecord ==
    [][/\ (/\ Caller(Solo).pc = "acq_put"
            /\ Steps(Solo, "caller")
            /\ Caller(Solo).id \notin DOMAIN table)
           => /\ Caller(Solo).id \in DOMAIN table'
              /\ LET r == table'[Caller(Solo).id] IN
                 /\ r.ID = Caller(Solo).id
                 /\ r.Owner = Owner(Solo)
                 /\ r.CreatedAtMilliseconds = Caller(Solo).now
                 /\ r.LastUpdatedTimeMilliseconds = Caller(Solo).now
                 /\ r.LeaseDurationMilliseconds
                      = 1000 * lockLeaseDurationSeconds
                 /\ r.Data = Caller(Solo).newData
                 /\ th'[Solo]["caller"].lock = r
              /\ th'[Solo]["caller"].pc = "acq_pstore"
       /\ (Caller(Solo).pc = "acq_pstore" /\ Steps(Solo, "caller"))
           => /\ th'[Solo]["caller"].pc = "idle"
              /\ th'[Solo]["caller"].res = "ok"
              /\ Caller(Solo).id \in DOMAIN table'
              /\ table'[Caller(Solo).id].RecordVersionNumber
                   = Caller(Solo).lock.RecordVersionNumber
              /\ Caller(Solo).id \in DOMAIN locks'[Solo]
              /\ locks'[Solo][Caller(Solo).id] = Caller(Solo).lock
              /\ locks'[Solo][Caller(Solo).id]
                   = table'[Caller(Solo).id]]_vars

\* C14 witness: a fresh Acquire made after the clock has moved has returned
C14_Witness ==
    /\ Caller(Solo).op = "Acquire" /\ Caller(Solo).pc = "idle"
    /\ Caller(Solo).res = "ok" /\ Caller(Solo).saw = "absent"
    /\ Caller(Solo).id \in DOMAIN table
    /\ Caller(Solo).id \in DOMAIN locks[Solo]
    /\ locks[Solo][Caller(Solo).id] = table[Caller(Solo).id]
    /\ table[Caller(Solo).id].CreatedAtMilliseconds > 0

\* C15: every write that replaces an owner's item by an item of the same
\* owner (a heartbeat, or the owner's Acquire of its own expired record)
\* leaves the item's creation time as it was.
C15_CreatedAtKept ==
    [][\A id \in LockIDs :
        (/\ id \in DOMAIN table
         /\ id \in DOMAIN table'
         /\ table'[id] # table[id]
         /\ table'[id].Owner = table[id].Owner)
        => table'[id].CreatedAtMilliseconds
             = table[id].CreatedAtMilliseconds]_vars

\* C15 witness: an owner's heartbeat has renewed its item at a later time
\* than the item's creation
C15_Witness ==
    \E p \in Processes : \E t \in Threads :
        /\ th[p][t].op = "Heartbeat" /\ th[p][t].pc = "idle"
        /\ th[p][t].res = "ok"
        /\ th[p][t].existing.Owner = Owner(p)
        /\ th[p][t].id \in DOMAIN table
        /\ table[th[p][t].id].Owner = Owner(p)
        /\ table[th[p][t].id].CreatedAtMilliseconds
             = th[p][t].existing.CreatedAtMilliseconds
        /\ table[th[p][t].id].LastUpdatedTimeMilliseconds
             > table[th[p][t].id].CreatedAtMilliseconds

\* a heartbeat's put that takes effect
HeartbeatWrites(p, t) ==
    /\ th[p][t].pc = "hb_put"
    /\ Steps(p, t)
    /\ th'[p][t].pc = "hb_store"

\* C16 as stated: after every successful heartbeat the stored last-update
\* time is strictly greater than the one it replaced, also when both writes
\* fall in the same clock millisecond, and the stored TTL is at least the
\* last-update time in seconds plus ten lease durations.
C16_HeartbeatAdvancesTime ==
    [][\A p \in Processes : \A t \in Threads :
        HeartbeatWrites(p, t) =>
            LET old == table[th[p][t].id]
                new == table'[th[p][t].id]
            IN /\ new.LastUpdatedTimeMilliseconds
                    > old.LastUpdatedTimeMilliseconds
               /\ new.TTLEpochSeconds
                    >= (new.LastUpdatedTimeMilliseconds \div 1000)
                         + 10 * lockLeaseDurationSeconds]_vars

\* C16 amended: after every successful heartbeat the stored last-update
\* time is the heartbeat's now, which is not smaller than the one it
\* replaced and equal to it when both writes fall in the same clock
\* millisecond; the stored TTL is at least the last-update time in whole
\* seconds plus ten lease durations.
C16_HeartbeatKeepsTimeOrder ==
    [][\A p \in Processes : \A t \in Threads :
        HeartbeatWrites(p, t) =>
            LET old == table[th[p][t].id]
                new == table'[th[p][t].id]
            IN /\ new.LastUpdatedTimeMilliseconds = th[p][t].now
               /\ new.LastUpdatedTimeMilliseconds
                    >= old.LastUpdatedTimeMilliseconds
               /\ (th[p][t].now = old.LastUpdatedTimeMilliseconds)
                    => (new.LastUpdatedTimeMilliseconds
                          = old.LastUpdatedTimeMilliseconds)
               /\ new.TTLEpochSeconds
                    >= (new.LastUpdatedTimeMilliseconds \div 1000)
                         + 10 * lockLeaseDurationSeconds]_vars

\* C16 witness: a heartbeat has replaced an item written in the same
\* millisecond
C16_Witness ==
    \E p \in Processes : \E t \in Threads :
        /\ th[p][t].op = "Heartbeat" /\ th[p][t].pc = "idle"
        /\ th[p][t].res = "ok"
        /\ th[p][t].id \in DOMAIN table
        /\ table[th[p][t].id].RecordVersionNumber
             # th[p][t].existing.RecordVersionNumber
        /\ table[th[p][t].id].LastUpdatedTimeMilliseconds
             = th[p][t].existing.LastUpdatedTimeMilliseconds
        /\ table[th[p][t].id].LastUpdatedTimeMilliseconds = clock

\* C17: every record putNewLock or updateExistingLock writes under a lease
\* of at least one second has its TTL strictly after the end of its lease:
\* ttl_epoch_s * 1000 > last_updated_ms + lease_duration_ms, with the TTL
\* computed from now by integer division.
C17_TTLAfterLeaseEnd ==
    \A id \in DOMAIN table :
        table[id].TTLEpochSeconds * 1000
            > table[id].LastUpdatedTimeMilliseconds
                + table[id].LeaseDurationMilliseconds

\* C17 witness: a record renewed in the last millisecond of a second under
\* the shortest lease
C17_Witness ==
    \E id \in DOMAIN table :
        /\ table[id].LeaseDurationMilliseconds = 1000
        /\ table[id].LastUpdatedTimeMilliseconds % 1000 = 999
        /\ table[id].LastUpdatedTimeMilliseconds
             > table[id].CreatedAtMilliseconds

\* C18: a Heartbeat for an id without an entry in the caller's registry
\* returns LockNotFoundError, issues no remote request and leaves the
\* registry and the table as they are.
C18_HeartbeatNotFound ==
    [][\A p \in Processes : \A t \in Threads :
        (/\ th[p][t].pc = "hb_begin"
         /\ Steps(p, t)
         /\ th[p][t].id \notin DOMAIN locks[p])
        => /\ th'[p][t].pc = "idle"
           /\ th'[p][t].res = "NOT_FOUND"
           /\ ~th'[p][t].issued
           /\ locks' = locks
           /\ table' = table]_vars

\* C18 witness: the id has an item in the table, the caller has no entry
\* for it, and its Heartbeat has returned LockNotFoundError
C18_Witness ==
    \E p \in Processes :
        /\ Caller(p).op = "Heartbeat" /\ Caller(p).pc = "idle"
        /\ Caller(p).res = "NOT_FOUND" /\ ~Caller(p).issued
        /\ Caller(p).id \notin DOMAIN locks[p]
        /\ Caller(p).id \in DOMAIN table

\* a step of Close: its call, the handing over of the stop signal, its return
ClosingStep(p) ==
    /\ Steps(p, "caller")
    /\ th'[p]["caller"].op = "Close"

\* C19: Close issues no remote put or delete: through all its steps the
\* table is unchanged, so the record of every lock held stays as it is, and
\* the registry is unchanged.
C19_CloseLeavesLocks ==
    [][ClosingStep(Solo) =>
          /\ table' = table
          /\ locks' = locks
          /\ ~th'[Solo]["caller"].issued]_vars

\* C19 witness: Close has returned while the process holds a lock whose
\* item is still in the table
C19_Witness ==
    /\ Caller(Solo).op = "Close" /\ Caller(Solo).pc = "idle"
    /\ Caller(Solo).res = "ok"
    /\ Solo \in stopped
    /\ \E id \in DOMAIN locks[Solo] :
          /\ id \in DOMAIN table
          /\ table[id] = locks[Solo][id]

\* the first Close of a process has returned
Closed(p) ==
    /\ Caller(p).op = "Close"
    /\ Caller(p).pc = "idle"
    /\ Caller(p).res = "ok"

\* a first Close eventually returns
CloseReturns ==
    (Caller(Solo).pc = "close_send" /\ Solo \notin stopped) ~> Closed(Solo)

\* Close returns only after the background goroutine took the stop signal
CloseAfterStop == [](Closed(Solo) => Solo \in stopped)

\* a goroutine that took the stop signal starts no tick, and none of its
\* heartbeats takes a step
LoopQuietAfterStop ==
    [][(Solo \in stopped) =>
          /\ \A id \in LockIDs : th'[Solo][id] = th[Solo][id]
          /\ Solo \in stopped']_vars

\* C20: a first Close eventually returns, once the remote calls in flight
\* have completed; it returns only after the background goroutine has taken
\* the stop signal; and from then on the goroutine starts no tick and none
\* of its heartbeats takes a step or writes.
C20_CloseStopsLoop == CloseReturns /\ CloseAfterStop /\ LoopQuietAfterStop

\* C20 witness: Close has returned to a process that holds a lock, with
\* calls and ticks left in the run
C20_Witness ==
    /\ Closed(Solo)
    /\ Solo \in stopped
    /\ DOMAIN locks[Solo] # {}
    /\ ops > 0

\* C21: when Close is signalled while a heartbeat of the tick is in flight,
\* the heartbeat's remote call is cancelled: from then on it writes nothing to
\* the table, and the background goroutine takes the stop signal without
\* waiting for the call to complete.
C21_CloseCancelsHeartbeats ==
    [][\A id \in LockIDs :
        (/\ Caller(Solo).pc = "close_send"
         /\ Solo \notin stopped
         /\ th[Solo][id].pc = "hb_put"
         /\ Steps(Solo, id))
        => /\ table' = table
           /\ ~th'[Solo][id].issued]_vars

\* C22: an Acquire with the empty id returns the INVALID error; it sends no
\* read and no write to the table and leaves the registry without an entry
\* for the empty id.
C22_EmptyIDIsInvalid ==
    \A p \in Processes :
        (Caller(p).op = "Acquire" /\ Caller(p).id = "")
        => /\ Caller(p).pc \in {"idle", "acq_get"}
           /\ Caller(p).saw = "none"
           /\ ~Caller(p).issued
           /\ "" \notin DOMAIN locks[p]
           /\ Caller(p).pc = "idle" => Caller(p).res = "INVALID"

HeartbeatErrors == {"UNAVAILABLE", "ABANDONED", "HEARTBEAT_FAILED"}

\* the last tick's heartbeats have all returned, one of them with an error
FailedTick(p) ==
    /\ \A id \in LockIDs : th[p][id].pc = "idle"
    /\ \E id \in LockIDs : th[p][id].res \in HeartbeatErrors

\* the background goroutine returns only by taking the stop signal of a Close
LoopExitsOnStopOnly ==
    [][(Solo \in stopped' /\ Solo \notin stopped)
          => Caller(Solo).pc = "close_send"]_vars

\* a tick starts a heartbeat for every id of the registry
TickHeartbeatsEvery ==
    [][(\E id \in LockIDs : /\ th[Solo][id].pc = "idle"
                             /\ th'[Solo][id].pc = "hb_begin")
          => \A id \in DOMAIN locks[Solo] : th'[Solo][id].pc = "hb_begin"]_vars

\* after a tick with failed heartbeats the next tick can fire
LoopTicksAfterErrors ==
    []((/\ FailedTick(Solo)
        /\ Solo \notin stopped
        /\ ops > 0
        /\ DOMAIN locks[Solo] # {}) => ENABLED Tick(Solo))

Seen(id) ==
    {r \in Records(id)
          \cup {th[p][t].existing : p \in Processes, t \in Threads}
          \cup {th[p][t].lock : p \in Processes, t \in Threads} : r.ID = id}

\* C24: every successful write of an id's item stores a record version that
\* differs from every earlier one and a last-updated time that is not below
\* that of any earlier write.
C24_WritesMoveForward ==
    [][\A id \in LockIDs :
        (/\ id \in DOMAIN table'
         /\ (id \in DOMAIN table => table'[id] # table[id]))
        => \A r \in Seen(id) :
              /\ table'[id].RecordVersionNumber # r.RecordVersionNumber
              /\ table'[id].LastUpdatedTimeMilliseconds
                    >= r.LastUpdatedTimeMilliseconds]_vars

\* the handler of p calls Release in this step
ShellCallsRelease(p) ==
    /\ th'[p]["caller"].op = "Release"
    /\ th'[p]["caller"].pc = "rel_begin"
    /\ th[p]["caller"].pc = "idle"

\* C25: the handler does the event's work only after its Acquire of the
\* event's id has returned success; it calls Release once, for that id, when
\* the work has ended, and never again; a handler whose Acquire failed does
\* no work and calls no Release.
C25_WorkUnderLockReleasedOnce ==
    [][\A p \in Processes :
        /\ (shell'[p] = "working" /\ shell[p] # "working")
           => /\ shell[p] = "acquiring"
              /\ Caller(p).op = "Acquire"
              /\ Caller(p).pc = "idle"
              /\ Caller(p).res = "ok"
        /\ (shell'[p] = "skipped" /\ shell[p] # "skipped")
           => /\ Caller(p).op = "Acquire"
              /\ Caller(p).res \notin {"ok", "none"}
        /\ ShellCallsRelease(p)
           => /\ shell[p] = "working"
              /\ shell'[p] = "releasing"
              /\ th'[p]["caller"].id = Caller(p).id
        /\ (shell[p] = "working" /\ shell'[p] # "working")
           => ShellCallsRelease(p)
        /\ shell[p] \in {"skipped", "released"} => shell'[p] = shell[p]]_vars

\* C25 witness: one handler has done the work and its Release has returned,
\* the other's Acquire failed and it has skipped the event
C25_Witness ==
    \E p \in Processes : \E q \in Processes \ {p} :
        /\ shell[p] = "released"
        /\ Caller(p).op = "Release" /\ Caller(p).pc = "idle"
        /\ shell[q] = "skipped"
        /\ Caller(q).op = "Acquire" /\ Caller(q).res = "UNAVAILABLE"

\* C26: a process's registry holds only locks the process has acquired:
\* every entry's owner is the process's own owner, and after an Acquire that
\* returned LockCurrentlyUnavailableError or a storage error the registry
\* has no entry for the id.
C26_RegistryHoldsOwnLocks ==
    \A p \in Processes :
        /\ \A id \in DOMAIN locks[p] : locks[p][id].Owner = Owner(p)
        /\ (/\ Caller(p).op = "Acquire"
            /\ Caller(p).pc = "idle"
            /\ Caller(p).res # "ok") => Caller(p).id \notin DOMAIN locks[p]

\* C27: the owner of an id's item changes from one process to another only
\* by a write of the new owner made when, by the time that process read for
\* the write, the item's lease had run out; a process whose Acquire returned
\* LockCurrentlyUnavailableError does not overwrite the holder's live item,
\* not through its background heartbeats either.
C27_OwnerChangesAfterExpiry ==
    [][\A id \in LockIDs :
        (/\ id \in DOMAIN table /\ id \in DOMAIN table'
         /\ table'[id].Owner # table[id].Owner)
        => \E p \in Processes : \E t \in Threads :
              /\ Steps(p, t)
              /\ table'[id].Owner = Owner(p)
              /\ IsExpired(table[id], th[p][t].now)]_vars

\* goroutine t of process p puts a record for id into the registry
StoresEntry(p, t, id) ==
    /\ Steps(p, t)
    /\ id \in DOMAIN locks'[p]
    /\ (id \in DOMAIN locks[p] => locks'[p][id] # locks[p][id])

\* C28: the background goroutine abandons an entry exactly when, at a tick,
\* now - created_at > 300000: at 300000 exactly the entry is still renewed,
\* beyond it the tick removes the entry; so the registry never comes to hold
\* a record whose created_at lies further back than the threshold and one
\* heartbeat interval, counted from the time the call that stores it read.
C28_AbandonedWithinOneTick ==
    [][\A p \in Processes : \A t \in LockIDs :
        /\ (/\ th[p][t].pc = "hb_begin" /\ Steps(p, t)
            /\ t \in DOMAIN locks[p])
           => IF clock - locks[p][t].CreatedAtMilliseconds
                   > abandonLockAfterMilliseconds
              THEN th'[p][t].res = "ABANDONED" /\ th'[p][t].pc = "loop_evict"
              ELSE th'[p][t].pc = "hb_put"
        /\ (th[p][t].pc = "loop_evict" /\ Steps(p, t))
           => t \notin DOMAIN locks'[p]
        /\ \A g \in Threads :
             StoresEntry(p, g, t)
             => th[p][g].now - locks'[p][t].CreatedAtMilliseconds
                  <= abandonLockAfterMilliseconds
                       + lockHeartbeatIntervalSeconds * 1000]_vars

\* p's last call is an Acquire that has returned after reading record r
\* with its lease run out
StealReturned(p, r) ==
    /\ Caller(p).op = "Acquire"
    /\ Caller(p).pc = "idle"
    /\ Caller(p).saw = "expired"
    /\ Caller(p).existing = r

\* C29: of two Acquire calls that both read the same expired record and
\* both tried the conditional put, at most one returns success; the other
\* returns LockCurrentlyUnavailableError and its process's registry has no
\* entry for the id from then on.
C29_StealRaceOneWinner ==
    \A p \in Processes : \A q \in Processes \ {p} :
        (/\ StealReturned(p, Caller(p).existing)
         /\ StealReturned(q, Caller(p).existing))
        => /\ ~(Caller(p).res = "ok" /\ Caller(q).res = "ok")
           /\ Caller(q).res # "ok"
                => /\ Caller(q).res = "UNAVAILABLE"
                   /\ Caller(q).id \notin DOMAIN locks[q]

\* C30: no goroutine holds the registry mutex while its remote call
\* (GetItem, PutItem, DeleteItem) is outstanding, and at most one goroutine
\* of a process holds the mutex.
C30_NoRemoteCallUnderMutex ==
    \A p \in Processes :
        /\ \A t \in Threads : th[p][t].mu => th[p][t].pc \in CriticalPcs
        /\ \A t \in Threads : th[p][t].pc \in RemotePcs => ~th[p][t].mu
        /\ Cardinality({t \in Threads : th[p][t].mu}) <= 1

\* C30 witness: Release holds the mutex for its eviction while the tick's
\* heartbeat has its PutItem outstanding
C30_Witness ==
    /\ Caller(Solo).pc = "rel_evict" /\ Caller(Solo).mu
    /\ \E t \in LockIDs : th[Solo][t].pc = "hb_put"

\* record new is record old rewritten by a heartbeat that carries data:
\* only the time, the TTL and the record version may differ
Renewed(old, new, data) ==
    /\ new.ID = old.ID
    /\ new.Owner = old.Owner
    /\ new.LeaseDurationMilliseconds = old.LeaseDurationMilliseconds
    /\ new.Shard = old.Shard
    /\ new.CreatedAtMilliseconds = old.CreatedAtMilliseconds
    /\ new.Data = data
    /\ new.RecordVersionNumber # old.RecordVersionNumber

\* C31: a successful Heartbeat changes only the last-updated time, the TTL
\* and the record version of the item and of the registry entry; the id,
\* the creation time, the shard and every other field stay, and the payload
\* stays for Heartbeat(id, nil) and becomes p for Heartbeat(id, p).
C31_HeartbeatFrame ==
    [][\A p \in Processes : \A t \in Threads :
        /\ (th[p][t].pc = "hb_put" /\ th'[p][t].pc = "hb_store")
           => /\ Renewed(table[th[p][t].id], table'[th[p][t].id],
                         th[p][t].newData)
              /\ t # "caller"
                   => table'[th[p][t].id].Data = table[th[p][t].id].Data
        /\ (/\ th[p][t].pc = "hb_store" /\ Steps(p, t)
            /\ th[p][t].id \in DOMAIN locks[p])
           => Renewed(locks[p][th[p][t].id], locks'[p][th[p][t].id],
                      th[p][t].lock.Data)]_vars

\* C32: every item written has its shard in 0 .. lockMaxShards - 1, and a
\* write that replaces an item (a heartbeat, a renewal by the same owner, a
\* steal by another owner) keeps the item's shard; the shard is drawn anew
\* only when the id had no item.
C32_ShardKept ==
    [][\A id \in LockIDs :
        id \in DOMAIN table'
        => /\ table'[id].Shard \in 0 .. (lockMaxShards - 1)
           /\ id \in DOMAIN table => table'[id].Shard = table[id].Shard]_vars

\* C32 witness: an item with the last shard has been stolen by another
\* owner, which then heartbeats or holds it with that shard
C32_Witness ==
    \E p \in Processes : \E id \in DOMAIN table :
        /\ Caller(p).op = "Acquire" /\ Caller(p).pc = "idle"
        /\ Caller(p).res = "ok" /\ Caller(p).saw = "expired"
        /\ Caller(p).id = id
        /\ Caller(p).existing.Owner # Owner(p)
        /\ Caller(p).existing.Shard = lockMaxShards - 1
        /\ table[id].Owner = Owner(p)
        /\ table[id].Shard = lockMaxShards - 1

\* C33: a Heartbeat evicts the registry entry with
\* LockCurrentlyUnavailableError only when the process no longer owns the
\* item: heartbeats of one process that run concurrently for the same id
\* never make the process evict a lock whose item it still owns.
C33_EvictsOnlyLostLocks ==
    [][\A t \in Threads :
        (th[Solo][t].pc = "hb_evict" /\ Steps(Solo, t))
        => \/ th[Solo][t].id \notin DOMAIN table
           \/ table[th[Solo][t].id].Owner # Owner(Solo)]_vars

\* process p holds id: it has acquired it and its registry has its record
Holds(p, id) ==
    /\ id \in DOMAIN locks[p]
    /\ locks[p][id].Owner = Owner(p)

\* C34: while a process holds an id and the lease of its item has not run
\* out, the item stays and stays the process's own whatever Acquire calls
\* the other processes make, and no heartbeat of the holder's background
\* goroutine finds the item taken.
C34_LeaseKeptAlive ==
    [][\A p \in Processes : \A id \in LockIDs :
        (/\ Holds(p, id)
         /\ id \in DOMAIN table
         /\ table[id].Owner = Owner(p)
         /\ ~IsExpired(table[id], clock))
        => /\ id \in DOMAIN table'
           /\ table'[id].Owner = Owner(p)
           /\ th'[p][id].pc # "hb_evict"]_vars

\* p's last call is an Acquire that took id over from another owner whose
\* lease had run out
Stole(p, id) ==
    /\ Caller(p).op = "Acquire" /\ Caller(p).pc = "idle"
    /\ Caller(p).res = "ok" /\ Caller(p).saw = "expired"
    /\ Caller(p).id = id
    /\ Caller(p).existing.Owner # Owner(p)

\* C35: a lock acquired by stealing an expired item is not abandoned within
\* 300000 ms of the steal: until then a heartbeat of it goes on to its put
\* and does not return LockAbandonedError, however old the stolen item was.
C35_StolenLockRenewed ==
    [][\A p \in Processes : \A t \in Threads :
        (/\ th[p][t].pc = "hb_begin" /\ Steps(p, t)
         /\ Stole(p, th[p][t].id)
         /\ Holds(p, th[p][t].id)
         /\ clock - Caller(p).now <= abandonLockAfterMilliseconds)
        => /\ th'[p][t].res # "ABANDONED"
           /\ th'[p][t].pc = "hb_put"]_vars

\* C36: every Close returns, a second one too: no Close waits in its send on
\* the stop channel after the background goroutine, the channel's only
\* receiver, has returned.
C36_EveryCloseReturns ==
    Caller(Solo).pc = "close_send" => Solo \notin stopped

\* goroutine t's heartbeat put comes back with a storage error in this step
PutFails(t) ==
    /\ th[Solo][t].pc = "hb_put"
    /\ th'[Solo][t].res = "HEARTBEAT_FAILED"

\* the tick that follows a heartbeat failed by a storage error heartbeats
\* the id again
RetriedByNextTick ==
    \A id \in LockIDs :
        (/\ th[Solo][id].pc = "idle"
         /\ th[Solo][id].res = "HEARTBEAT_FAILED"
         /\ id \in DOMAIN locks[Solo]
         /\ \E x \in LockIDs : th'[Solo][x].pc = "hb_begin")
        => th'[Solo][id].pc = "hb_begin"

\* C37 as stated: a heartbeat whose put comes back with a storage error
\* returns LockHeartbeatFailedError, keeps the registry entry as it is,
\* leaves the item in the table unchanged, and is retried by the next tick.
C37_FailedPutChangesNothing ==
    [][/\ \A t \in Threads :
            PutFails(t) => /\ th'[Solo][t].pc = "idle"
                           /\ locks' = locks
                           /\ table' = table
       /\ RetriedByNextTick]_vars

\* C37 amended: a heartbeat whose put comes back with a storage error
\* returns LockHeartbeatFailedError and keeps the registry entry as it is;
\* the item in the table is unchanged when the put was not applied and is
\* otherwise the record the heartbeat sent; the next tick retries.
C37_FailedPutKeepsEntry ==
    [][/\ \A t \in Threads :
            PutFails(t)
            => /\ th'[Solo][t].pc = "idle"
               /\ locks' = locks
               /\ \/ table' = table
                  \/ table' = MapPut(table, th[Solo][t].id,
                                 UpdatedLock(Solo, th[Solo][t].existing,
                                             th[Solo][t].newData,
                                             th[Solo][t].now, nextVersion))
       /\ RetriedByNextTick]_vars

\* C37 witness: the tick's heartbeat has come back with a storage error
\* after its put was applied: the registry entry has the old version, the
\* item the new one, and the next tick can fire
C37_Witness ==
    \E id \in DOMAIN locks[Solo] :
        /\ th[Solo][id].pc = "idle"
        /\ th[Solo][id].res = "HEARTBEAT_FAILED"
        /\ id \in DOMAIN table
        /\ table[id].Owner = Owner(Solo)
        /\ table[id].RecordVersionNumber
             # locks[Solo][id].RecordVersionNumber
        /\ ENABLED Tick(Solo)

\* ---------------------------------------------------------------- C38
ReadLockHolders == {e \in Events : events[e].pc \in {"check", "check2"}}

\* C38: the InteractionCreate handler gives the idsMap read lock back on
\* every path, the early return for a channel that is not in channelIDs
\* included: the read locks held are those of the handlers that are still
\* between their RLock and their RUnlock, so that once these have gone on a
\* waiting updateChannels or updateThreads can take the write lock, and with
\* no writer inside the lock a waiting handler can take the read lock.
C38_ReadLockReleasedOnEveryPath ==
    /\ idsMap.readerCount = Cardinality(ReadLockHolders)
    /\ \A e \in Events :
          /\ (events[e].pc = "drain" /\ ReadLockHolders = {})
                => ENABLED LockTaken(e)
          /\ (events[e].pc \in {"rlock", "rlock2"}
                /\ \A f \in Events : events[f].pc \notin {"drain", "update"})
                => ENABLED RLock(e)

====
